---- MODULE Spec2Model ----
(***************************************************************************)
(* rehype-autolink-headings (src/lib/index.js): the configuring entry      *)
(* point, the transform's traversal and the four placement strategies,     *)
(* over a heap of objects with identity (nodes, child arrays, property     *)
(* maps, string lists), so that aliasing is observable.                    *)
(***************************************************************************)
EXTENDS Integers, Sequences, FiniteSets, TLC

VARIABLES heap, options, settings, tree, stack, pc, run, before, made, visited

vars == <<heap, options, settings, tree, stack, pc, run, before, made, visited>>

(***************************************************************************)
(* Bounds of the model.                                                    *)
(***************************************************************************)
\* Top-level children of the input root.
MaxWidth == 2
\* Optional configuration fields (properties, content, group, test) supplied.
MaxOptions == 1
\* Times the transform is run on the same tree.
MaxRuns == 2

(***************************************************************************)
(* JavaScript values held by property maps.                                *)
(***************************************************************************)
KeySeq == <<"id", "href", "ariaHidden", "tabIndex", "className", "title">>

Undef == [ty |-> "undefined", v |-> "", ref |-> 0]
Str(s) == [ty |-> "string", v |-> s, ref |-> 0]
Num(s) == [ty |-> "number", v |-> s, ref |-> 0]
Bool(s) == [ty |-> "boolean", v |-> s, ref |-> 0]
Arr(a) == [ty |-> "array", v |-> "", ref |-> a]

\* JavaScript truthiness of a property value.
Truthy(x) ==
  CASE x.ty = "undefined" -> FALSE
    [] x.ty = "string" -> x.v # ""
    [] x.ty = "number" -> x.v # "0"
    [] x.ty = "boolean" -> x.v = "true"
    [] OTHER -> TRUE

(***************************************************************************)
(* Heap objects. Address 0 is "no object".                                 *)
(***************************************************************************)
\* A property map holds the keys that are set; reading another key gives
\* undefined.
NoMap == <<>>
Get(map, k) == IF k \in DOMAIN map THEN map[k] ELSE Undef

NodeObj(type, tagName, value, properties, children) ==
  [kind |-> "node", type |-> type, tagName |-> tagName, value |-> value,
   properties |-> properties, children |-> children]
ArrayObj(items) == [kind |-> "array", items |-> items]
PropsObj(map) == [kind |-> "props", map |-> map]
ListObj(strs) == [kind |-> "list", strs |-> strs]

Alloc(h, o) == [h |-> Append(h, o), a |-> Len(h) + 1]

\* parent.children.indexOf(node), zero-based; -1 when absent.
RECURSIVE IndexFrom(_, _, _)
IndexFrom(s, x, i) ==
  IF i > Len(s) THEN -1
  ELSE IF s[i] = x THEN i - 1 ELSE IndexFrom(s, x, i + 1)
IndexOf(s, x) == IndexFrom(s, x, 1)

(***************************************************************************)
(* Plain-data (serialized) form of a value: what a structured clone        *)
(* carries from the original to the copy.                                  *)
(***************************************************************************)
SStr(s) == [ty |-> "string", v |-> s, strs |-> <<>>]
SNum(s) == [ty |-> "number", v |-> s, strs |-> <<>>]
SBool(s) == [ty |-> "boolean", v |-> s, strs |-> <<>>]
SArr(strs) == [ty |-> "array", v |-> "", strs |-> strs]
SNoMap == <<>>

SerializeProps(h, p) ==
  [k \in DOMAIN h[p].map |->
     LET x == h[p].map[k]
     IN  [ty |-> x.ty, v |-> x.v,
          strs |-> IF x.ty = "array" THEN h[x.ref].strs ELSE <<>>]]

RECURSIVE Serialize(_, _)
Serialize(h, a) ==
  LET o == h[a]
  IN  IF o.kind = "array"
        THEN [kind |-> "array", type |-> "", tagName |-> "", value |-> "",
              hasProps |-> FALSE, props |-> SNoMap, hasKids |-> TRUE,
              kids |-> [i \in 1..Len(o.items) |-> Serialize(h, o.items[i])]]
        ELSE [kind |-> "node", type |-> o.type, tagName |-> o.tagName,
              value |-> o.value,
              hasProps |-> o.properties # 0,
              props |-> IF o.properties # 0
                          THEN SerializeProps(h, o.properties) ELSE SNoMap,
              hasKids |-> o.children # 0,
              kids |-> IF o.children # 0
                         THEN [i \in 1..Len(h[o.children].items) |->
                                 Serialize(h, h[o.children].items[i])]
                         ELSE <<>>]

\* The objects a serialized props map becomes, allocated after address base:
\* one string list per array-valued key, then the map itself (the last).
ArrayKeys(sp) ==
  SelectSeq(KeySeq, LAMBDA k : k \in DOMAIN sp /\ sp[k].ty = "array")
PropsObjects(sp, base) ==
  LET ak == ArrayKeys(sp)
  IN  [i \in 1..Len(ak) |-> ListObj(sp[ak[i]].strs)]
      \o <<PropsObj([k \in DOMAIN sp |->
                       IF sp[k].ty = "array"
                         THEN Arr(base + IndexOf(ak, k) + 1)
                         ELSE [ty |-> sp[k].ty, v |-> sp[k].v, ref |-> 0]])>>

\* The objects a serialized node or array becomes, allocated after address
\* base; the node or array itself is the last.
RECURSIVE Objects(_, _)
RECURSIVE ObjectsAll(_, _, _, _, _)
ObjectsAll(ss, i, base, objs, items) ==
  IF i > Len(ss) THEN [objs |-> objs, items |-> items]
  ELSE LET o == Objects(ss[i], base + Len(objs))
       IN  ObjectsAll(ss, i + 1, base, objs \o o,
                      Append(items, base + Len(objs) + Len(o)))

Objects(s, base) ==
  IF s.kind = "array"
    THEN LET ks == ObjectsAll(s.kids, 1, base, <<>>, <<>>)
         IN  ks.objs \o <<ArrayObj(ks.items)>>
    ELSE LET p == IF s.hasProps THEN PropsObjects(s.props, base) ELSE <<>>
             ks == IF s.hasKids
                     THEN ObjectsAll(s.kids, 1, base + Len(p), <<>>, <<>>)
                     ELSE [objs |-> <<>>, items |-> <<>>]
             c == IF s.hasKids THEN <<ArrayObj(ks.items)>> ELSE <<>>
             n == base + Len(p) + Len(ks.objs) + Len(c)
         IN  p \o ks.objs \o c
             \o <<NodeObj(s.type, s.tagName, s.value,
                          IF s.hasProps THEN base + Len(p) ELSE 0,
                          IF s.hasKids THEN n ELSE 0)>>

\* Allocate the objects o at the end of the heap; the last one is the value.
Place(h, o) == [h |-> h \o o, a |-> Len(h) + Len(o)]

DeserializeProps(h, sp) == Place(h, PropsObjects(sp, Len(h)))

Deserialize(h, s) == Place(h, Objects(s, Len(h)))

\* structuredClone of a props map (plain object).
CloneProps(h, p) == DeserializeProps(h, SerializeProps(h, p))

\* clone(thing): an independent deep copy allocated in the heap.
clone(h, a) ==
  IF h[a].kind = "props" THEN CloneProps(h, a)
  ELSE Deserialize(h, Serialize(h, a))

(***************************************************************************)
(* Collaborators consumed through their contracts.                         *)
(***************************************************************************)
\* headingRank(node): 1..6 for an element h1..h6, 0 (undefined) otherwise.
headingRank(o) ==
  IF o.type # "element" THEN 0
  ELSE CASE o.tagName = "h1" -> 1
         [] o.tagName = "h2" -> 2
         [] o.tagName = "h3" -> 3
         [] o.tagName = "h4" -> 4
         [] o.tagName = "h5" -> 5
         [] o.tagName = "h6" -> 6
         [] OTHER -> 0

\* is = convertElement(settings.test), applied to (node, index, parent).
is(test, h, node, index, parent) ==
  CASE test = "none" -> h[node].type = "element"
    [] test = "rank" -> h[node].type = "element" /\ headingRank(h[node]) # 1
    [] OTHER -> FALSE

(***************************************************************************)
(* Templates: absent, static data (held by reference) or a generator.      *)
(***************************************************************************)
None == [kind |-> "none", ref |-> 0, fn |-> ""]
Static(a) == [kind |-> "static", ref |-> a, fn |-> ""]
Function(f) == [kind |-> "function", ref |-> 0, fn |-> f]

IdOf(h, node) == Get(h[h[node].properties].map, "id")

\* The Build generator supplied by the caller: a fresh text node per call.
Build(h, fn, node) == Alloc(h, NodeObj("text", "", IdOf(h, node).v, 0, 0))

\* BuildProperties generator supplied by the caller; it sets an href itself.
BuildProperties(h, node) ==
  Alloc(h, PropsObj(("href" :> Str("evil"))
                    @@ ("title" :> Str(IdOf(h, node).v))))

(***************************************************************************)
(* The materializer and the link constructor.                              *)
(***************************************************************************)
\* A variant that hands out static data itself, not a copy of it.
toNodeShared(h, value, node) ==
  IF value.kind = "function" THEN Build(h, value.fn, node)
  ELSE [h |-> h, a |-> value.ref]

toNode(h, value, node) ==
  IF value.kind = "function" THEN Build(h, value.fn, node)
  ELSE clone(h, value.ref)

\* Array.isArray(result) ? result : [result]
AsArray(result) ==
  IF result.h[result.a].kind = "array" THEN result
  ELSE Alloc(result.h, ArrayObj(<<result.a>>))

toChildren(h, value, node) == AsArray(toNode(h, value, node))

toProperties(h, value, node) ==
  IF value.kind = "function" THEN BuildProperties(h, node)
  ELSE IF value.kind = "static" THEN clone(h, value.ref)
  ELSE Alloc(h, PropsObj(NoMap))

\* {...props, href: '#' + node.properties.id} in a new element 'a'.
Anchor(p, children) == Alloc(p.h, NodeObj("element", "a", "", p.a, children))

\* A variant in which the template's own href survives the spread.
createSpreadLast(h, node, props, children) ==
  Anchor(Alloc(h, PropsObj(h[props].map
                           @@ ("href" :> Str("#" \o IdOf(h, node).v)))),
         children)

create(h, node, props, children) ==
  Anchor(Alloc(h, PropsObj(("href" :> Str("#" \o IdOf(h, node).v))
                           @@ h[props].map)),
         children)

(***************************************************************************)
(* Inputs: trees and configurations.                                       *)
(***************************************************************************)
Txt(v) == [kind |-> "node", type |-> "text", tagName |-> "", value |-> v,
           hasProps |-> FALSE, props |-> SNoMap, hasKids |-> FALSE,
           kids |-> <<>>]
El(tag, props, kids) ==
  [kind |-> "node", type |-> "element", tagName |-> tag, value |-> "",
   hasProps |-> TRUE, props |-> props, hasKids |-> TRUE, kids |-> kids]
SRoot(kids) ==
  [kind |-> "node", type |-> "root", tagName |-> "", value |-> "",
   hasProps |-> FALSE, props |-> SNoMap, hasKids |-> TRUE, kids |-> kids]
SList(kids) ==
  [kind |-> "array", type |-> "", tagName |-> "", value |-> "",
   hasProps |-> FALSE, props |-> SNoMap, hasKids |-> TRUE, kids |-> kids]
WithId(id) == "id" :> SStr(id)

\* The blocks input trees are built from: a qualifying heading of rank 1
\* with two children, holding (inside an element that is no heading) another
\* qualifying heading; a heading without id around a qualifying heading that
\* has text before and after it; a heading with an empty id around an element
\* that has an id and is no heading.
Blocks ==
  { El("h1", WithId("a"),
       <<Txt("x"), El("em", SNoMap, <<El("h6", WithId("c"), <<Txt("y")>>)>>)>>),
    El("h3", SNoMap, <<Txt("t"), El("h2", WithId("b"), <<Txt("y")>>), Txt("t")>>),
    El("h2", WithId(""), <<El("hr", WithId("r"), <<>>)>>) }

BlockSeqs == UNION {[1..n -> Blocks] : n \in 0..MaxWidth}

\* contentDefaults: <span class="icon icon-link"></span>.
SContentDefaults ==
  El("span", "className" :> SArr(<<"icon", "icon-link">>), <<>>)
ContentDefaultsLoaded == Deserialize(<<>>, SContentDefaults)
contentDefaults == ContentDefaultsLoaded.a

\* Static templates a caller may supply.
SContent == SList(<<Txt("c"), El("h2", WithId("k"), <<>>)>>)
SGroupElement == El("h1", WithId("g"), <<Txt("old")>>)
SGroupArray == SList(<<El("div", SNoMap, <<>>)>>)
SProperties ==
  ("href" :> SStr("x")) @@ ("title" :> SStr("t"))
  @@ ("className" :> SArr(<<"k">>))

Behaviors ==
  {"", "after", "append", "before", "prepend", "wrap", "substitute", "other"}

Choices ==
  { c \in [behavior : Behaviors,
           properties : {"none", "static", "function"},
           content : {"none", "static", "function"},
           group : {"none", "element", "array", "function"},
           test : {"none", "rank"}] :
      Cardinality({f \in {"properties", "content", "group", "test"} :
                     c[f] # "none"}) <= MaxOptions }

LoadStatic(h, s) ==
  LET r == Deserialize(h, s) IN [h |-> r.h, d |-> Static(r.a)]

LoadProperties(h, choice) ==
  CASE choice = "static" ->
         LET r == DeserializeProps(h, SProperties)
         IN  [h |-> r.h, d |-> Static(r.a)]
    [] choice = "function" -> [h |-> h, d |-> Function("properties")]
    [] OTHER -> [h |-> h, d |-> None]

LoadContent(h, choice) ==
  CASE choice = "static" -> LoadStatic(h, SContent)
    [] choice = "function" -> [h |-> h, d |-> Function("text")]
    [] OTHER -> [h |-> h, d |-> None]

LoadGroup(h, choice) ==
  CASE choice = "element" -> LoadStatic(h, SGroupElement)
    [] choice = "array" -> LoadStatic(h, SGroupArray)
    [] choice = "function" -> [h |-> h, d |-> Function("text")]
    [] OTHER -> [h |-> h, d |-> None]

NoSettings ==
  [behavior |-> "", props |-> None, content |-> None, group |-> None,
   test |-> "none", method |-> ""]

Init ==
  \E bs \in BlockSeqs, c \in Choices :
    LET p == LoadProperties(ContentDefaultsLoaded.h, c.properties)
        ct == LoadContent(p.h, c.content)
        g == LoadGroup(ct.h, c.group)
        t == Deserialize(g.h, SRoot(bs))
    IN  /\ heap = t.h
        /\ options = [behavior |-> c.behavior, properties |-> p.d,
                      content |-> ct.d, group |-> g.d, test |-> c.test]
        /\ tree = t.a
        /\ settings = NoSettings
        /\ stack = <<>>
        /\ pc = "init"
        /\ run = 0
        /\ before = t.h
        /\ made = <<>>
        /\ visited = <<>>

(***************************************************************************)
(* rehypeAutolinkHeadings(options): resolve the settings.                  *)
(***************************************************************************)
\* The switch on behavior.
MethodOf(behavior) ==
  CASE behavior \in {"after", "before"} -> "around"
    [] behavior = "wrap" -> "wrap"
    [] behavior = "substitute" -> "substitute"
    [] OTHER -> "inject"

\* The defaults assigned to props when none are supplied.
DefaultProps(method) ==
  CASE method = "substitute" -> "tabIndex" :> Num("-1")
    [] method = "inject" ->
         ("ariaHidden" :> Str("true")) @@ ("tabIndex" :> Num("-1"))
    [] OTHER -> NoMap

Configure ==
  /\ pc = "init"
  /\ LET behavior == IF options.behavior = "" THEN "prepend"
                     ELSE options.behavior
         content == IF options.content.kind = "none"
                      THEN Static(contentDefaults) ELSE options.content
         method == MethodOf(behavior)
         defaulted == options.properties.kind = "none"
                      /\ method \in {"substitute", "inject"}
         d == Alloc(heap, PropsObj(DefaultProps(method)))
     IN  /\ heap' = IF defaulted THEN d.h ELSE heap
         /\ settings' = [behavior |-> behavior,
                         props |-> IF defaulted THEN Static(d.a)
                                   ELSE options.properties,
                         content |-> content,
                         group |-> options.group,
                         test |-> options.test,
                         method |-> method]
  /\ pc' = "ready"
  /\ UNCHANGED <<options, tree, stack, run, before, made, visited>>

(***************************************************************************)
(* The placement strategies. Each returns the heap after its mutation, the *)
(* link (and grouping element) it created and the index the traversal      *)
(* resumes at (-1: none given, the traversal takes the next sibling).      *)
(***************************************************************************)
\* create(node, toProperties(props, node), children), given the children.
LinkWith(node, children, props) == create(props.h, node, props.a, children)
LinkAround(h, node, children) ==
  LinkWith(node, children, toProperties(h, settings.props, node))
LinkFor(node, children) == LinkAround(children.h, node, children.a)

\* A variant that pushes for 'append' alone and unshifts otherwise.
InsertFirstUnlessAppend(node, link) ==
  [h |-> [link.h EXCEPT ![link.h[node].children].items =
            IF settings.behavior = "append" THEN Append(@, link.a)
            ELSE <<link.a>> \o @],
   link |-> link.a, grouping |-> 0, next |-> -1]

\* node.children.unshift(link) or node.children.push(link).
Insert(node, link) ==
  [h |-> [link.h EXCEPT ![link.h[node].children].items =
            IF settings.behavior = "prepend" THEN <<link.a>> \o @
            ELSE Append(@, link.a)],
   link |-> link.a, grouping |-> 0, next |-> -1]

inject(h, node) ==
  Insert(node, LinkFor(node, toChildren(h, settings.content, node)))

\* A variant that groups with whatever single node the template gives.
GroupedAny(grouping) ==
  /\ grouping.a # 0
  /\ grouping.h[grouping.a].kind = "node"

\* grouping.children = nodes, when grouping is a single element.
Grouped(grouping) ==
  /\ grouping.a # 0
  /\ grouping.h[grouping.a].kind = "node"
  /\ grouping.h[grouping.a].type = "element"
Hold(grouping, held) == [held.h EXCEPT ![grouping.a].children = held.a]
Group(grouping, pair) ==
  IF Grouped(grouping)
    THEN [h |-> Hold(grouping, Alloc(grouping.h, ArrayObj(pair))),
          nodes |-> <<grouping.a>>, grouping |-> grouping.a]
    ELSE [h |-> grouping.h, nodes |-> pair, grouping |-> 0]

\* A variant that resumes at the next index, whatever was spliced in.
SpliceNextOne(g, link, index, parent) ==
  [h |-> [g.h EXCEPT ![g.h[parent].children].items =
            SubSeq(@, 1, index) \o g.nodes \o SubSeq(@, index + 2, Len(@))],
   link |-> link, grouping |-> g.grouping, next |-> index + 1]

\* parent.children.splice(index, 1, ...nodes); return [SKIP, index + n].
Splice(g, link, index, parent) ==
  [h |-> [g.h EXCEPT ![g.h[parent].children].items =
            SubSeq(@, 1, index) \o g.nodes \o SubSeq(@, index + 2, Len(@))],
   link |-> link, grouping |-> g.grouping, next |-> index + Len(g.nodes)]

Surround(link, node, index, parent) ==
  Splice(Group(IF settings.group.kind # "none"
                 THEN toNode(link.h, settings.group, node)
                 ELSE [h |-> link.h, a |-> 0],
               IF settings.behavior = "before" THEN <<link.a, node>>
               ELSE <<node, link.a>>),
         link.a, index, parent)

around(h, node, index, parent) ==
  Surround(LinkFor(node, toChildren(h, settings.content, node)),
           node, index, parent)

\* node.children = [link].
Only(own, node, link) ==
  [h |-> [own.h EXCEPT ![node].children = own.a],
   link |-> link, grouping |-> 0, next |-> -1]
Replace(node, link) == Only(Alloc(link.h, ArrayObj(<<link.a>>)), node, link.a)

\* A variant that fills the link with the content template.
wrapDropping(h, node) ==
  Replace(node, LinkFor(node, toChildren(h, settings.content, node)))

wrap(h, node) == Replace(node, LinkAround(h, node, h[node].children))

\* A variant that keeps the heading's children inside the link, as wrap does.
substituteKeeping(h, node) == wrap(h, node)

substitute(h, node) ==
  Replace(node, LinkFor(node, toChildren(h, settings.content, node)))

(***************************************************************************)
(* The transform: visit(tree, 'element', visitor). The stack holds, for    *)
(* each parent being walked, the offset of the child to visit next.        *)
(***************************************************************************)
KidsOf(h, n) == h[h[n].children].items

\* Walk on to the next element: leave parents whose children are all done
\* and pass nodes that are no elements (the visitor is not called for them).
RECURSIVE Settle(_, _)
Settle(h, stk) ==
  IF stk = <<>> THEN stk
  ELSE LET top == stk[Len(stk)]
           kids == KidsOf(h, top.node)
       IN  IF top.offset >= Len(kids)
             THEN Settle(h, SubSeq(stk, 1, Len(stk) - 1))
           ELSE IF h[kids[top.offset + 1]].type # "element"
             THEN Settle(h, [stk EXCEPT ![Len(stk)].offset = @ + 1])
           ELSE stk

Top == stack[Len(stack)]
Current == KidsOf(heap, Top.node)[Top.offset + 1]
Index == IndexOf(KidsOf(heap, Top.node), Current)

\* A variant that does not look at the id.
QualifiesWithoutId(h, node, index, parent) ==
  /\ headingRank(h[node]) # 0
  /\ is(settings.test, h, node, index, parent)

\* The visitor's condition for calling the placement strategy.
Qualifies(h, node, index, parent) ==
  /\ headingRank(h[node]) # 0
  /\ Truthy(IdOf(h, node))
  /\ is(settings.test, h, node, index, parent)

\* The visitor returned nothing: walk the node's children, then its sibling.
Descend(node) ==
  Append([stack EXCEPT ![Len(stack)].offset = @ + 1],
         [node |-> node, offset |-> 0])

\* A variant in which the visitor's result is dropped: the children of the
\* node are walked as if it had returned nothing.
ResumeInto(next) == Descend(Current)

\* The visitor returned [SKIP] or [SKIP, next]: the children are not walked.
Resume(next) ==
  [stack EXCEPT ![Len(stack)].offset = IF next >= 0 THEN next ELSE @ + 1]

Record(r) ==
  Append(made, [run |-> run, node |-> Current, parent |-> Top.node,
                index |-> Index, link |-> r.link, grouping |-> r.grouping])

Walk(h, stk) ==
  LET on == Settle(h, stk)
  IN  /\ stack' = on
      /\ pc' = IF on = <<>> THEN "done" ELSE "visiting"

Transform ==
  /\ pc \in {"ready", "done"}
  /\ run < MaxRuns
  /\ Walk(heap, <<[node |-> tree, offset |-> 0]>>)
  /\ run' = run + 1
  /\ before' = heap
  /\ visited' = <<>>
  /\ UNCHANGED <<heap, options, settings, tree, made>>

\* An element the visitor returns nothing for.
Ignore ==
  /\ pc = "visiting"
  /\ ~Qualifies(heap, Current, Index, Top.node)
  /\ visited' = Append(visited, Current)
  /\ Walk(heap, Descend(Current))
  /\ UNCHANGED <<heap, options, settings, tree, run, before, made>>

Apply(r) ==
  /\ heap' = r.h
  /\ Walk(r.h, Resume(r.next))
  /\ made' = Record(r)
  /\ visited' = Append(visited, Current)
  /\ UNCHANGED <<options, settings, tree, run, before>>

Inject ==
  /\ pc = "visiting"
  /\ Qualifies(heap, Current, Index, Top.node)
  /\ settings.method = "inject"
  /\ Apply(inject(heap, Current))

Around ==
  /\ pc = "visiting"
  /\ Qualifies(heap, Current, Index, Top.node)
  /\ settings.method = "around"
  /\ Apply(around(heap, Current, Index, Top.node))

Wrap ==
  /\ pc = "visiting"
  /\ Qualifies(heap, Current, Index, Top.node)
  /\ settings.method = "wrap"
  /\ Apply(wrap(heap, Current))

Substitute ==
  /\ pc = "visiting"
  /\ Qualifies(heap, Current, Index, Top.node)
  /\ settings.method = "substitute"
  /\ Apply(substitute(heap, Current))

Next ==
  \/ Configure
  \/ Transform
  \/ Ignore
  \/ Inject
  \/ Around
  \/ Wrap
  \/ Substitute

Spec == Init /\ [][Next]_vars

(***************************************************************************)
(* Vocabulary of the properties.                                           *)
(***************************************************************************)
\* The nodes of the subtree at a, in document (depth-first, pre-order) order.
RECURSIVE PreOrder(_, _)
RECURSIVE PreOrderAll(_, _, _)
PreOrderAll(h, items, i) ==
  IF i > Len(items) THEN <<>>
  ELSE PreOrder(h, items[i]) \o PreOrderAll(h, items, i + 1)
PreOrder(h, a) ==
  <<a>> \o (IF h[a].children # 0 THEN PreOrderAll(h, KidsOf(h, a), 1)
            ELSE <<>>)

Range(s) == {s[i] : i \in DOMAIN s}
NodesOf(h, a) == Range(PreOrder(h, a))
Inside(h, a) == NodesOf(h, a) \ {a}

\* Every object reachable from the node at a: nodes, child arrays, property
\* maps and the string lists they hold.
OwnedBy(h, n) ==
  {n} \cup (IF h[n].children # 0 THEN {h[n].children} ELSE {})
      \cup (IF h[n].properties # 0
              THEN {h[n].properties}
                   \cup {h[h[n].properties].map[k].ref :
                           k \in {x \in DOMAIN h[h[n].properties].map :
                                    h[h[n].properties].map[x].ty = "array"}}
              ELSE {})
Reach(h, a) ==
  IF a = 0 THEN {}
  ELSE IF h[a].kind = "props"
    THEN {a} \cup {h[a].map[k].ref :
                     k \in {x \in DOMAIN h[a].map : h[a].map[x].ty = "array"}}
  ELSE IF h[a].kind = "array"
    THEN {a} \cup UNION {UNION {OwnedBy(h, n) : n \in NodesOf(h, x)} :
                           x \in Range(h[a].items)}
  ELSE UNION {OwnedBy(h, n) : n \in NodesOf(h, a)}

IsHeading(h, a) == h[a].kind = "node" /\ headingRank(h[a]) # 0
HasId(h, a) == IsHeading(h, a) /\ Truthy(IdOf(h, a))
IsAnchor(h, a) == h[a].type = "element" /\ h[a].tagName = "a"

\* The headings of the tree at the start of the run the visitor accepts.
Accepted ==
  {a \in NodesOf(before, tree) :
     HasId(before, a) /\ is(settings.test, before, a, 0, 0)}
\* Those of them that lie inside no other accepted heading.
Outermost ==
  LET acc == Accepted IN acc \ UNION {Inside(before, b) : b \in acc}

Done == pc = "done"
ThisRun == {i \in DOMAIN made : made[i].run = run}
LinkProps(m) == SerializeProps(heap, heap[m.link].properties)
Hash(h, node) == SStr("#" \o IdOf(h, node).v)

\* What the properties template gives for a heading, as plain data.
Template(node) ==
  IF settings.props.kind = "function"
    THEN LET r == BuildProperties(heap, node) IN SerializeProps(r.h, r.a)
  ELSE IF settings.props.kind = "static"
    THEN SerializeProps(heap, settings.props.ref)
  ELSE SNoMap

(***************************************************************************)
(* C1. Every link's href is "#" followed by the id of its heading, for     *)
(* every behavior and every properties template, also when the template    *)
(* sets an href itself; every other key of the template is kept.           *)
(***************************************************************************)
C1_HrefIsHashId ==
  \A i \in DOMAIN made :
    LET m == made[i]
        t == Template(m.node)
    IN  /\ "href" \in DOMAIN LinkProps(m)
        /\ LinkProps(m)["href"] = Hash(heap, m.node)
        /\ \A k \in DOMAIN t \ {"href"} :
             k \in DOMAIN LinkProps(m) /\ LinkProps(m)[k] = t[k]

\* A link made from a template that sets another href and two more keys.
C1_Witness ==
  \E i \in DOMAIN made :
    /\ "href" \in DOMAIN Template(made[i].node)
    /\ Template(made[i].node)["href"] # Hash(heap, made[i].node)
    /\ DOMAIN Template(made[i].node) \ {"href"} # {}

(***************************************************************************)
(* C2. With no filter, one run adds exactly one anchor per heading with a  *)
(* non-empty id, placed as the behavior says (first child, last child,     *)
(* sibling before, sibling after, or the only child around the original    *)
(* children), and no other anchor.                                         *)
(***************************************************************************)
Entry(a) == {i \in ThisRun : made[i].node = a}
Places(h, a) ==
  LET doc == PreOrder(h, tree) IN {i \in DOMAIN doc : doc[i] = a}
AnchorsOf(h) == {a \in NodesOf(h, tree) : IsAnchor(h, a)}

Placed(m) ==
  LET kids == KidsOf(heap, m.node)
      was == KidsOf(before, m.node)
      sibs == KidsOf(heap, m.parent)
      at == IndexOf(sibs, m.node) + 1
  IN  CASE settings.behavior = "prepend" -> kids = <<m.link>> \o was
        [] settings.behavior = "append" -> kids = was \o <<m.link>>
        [] settings.behavior = "wrap" ->
             kids = <<m.link>> /\ KidsOf(heap, m.link) = was
        [] settings.behavior = "before" /\ settings.group.kind = "none" ->
             at > 1 /\ sibs[at - 1] = m.link
        [] settings.behavior = "after" /\ settings.group.kind = "none" ->
             at >= 1 /\ at < Len(sibs) /\ sibs[at + 1] = m.link
        [] OTHER -> TRUE

\* One entry, one placed link for each heading of S; no other new anchor.
AddsOneLinkEach(S) ==
  /\ \A a \in S : Cardinality(Entry(a)) = 1
  /\ \A i \in ThisRun :
       /\ made[i].node \in S
       /\ Placed(made[i])
       /\ Cardinality(Places(heap, made[i].link)) = 1
  /\ AnchorsOf(heap) \ AnchorsOf(before) = {made[i].link : i \in ThisRun}

\* The claim as stated: every heading with a non-empty id gets its link.
C2_EveryHeadingWithId ==
  (Done /\ settings.test = "none") => AddsOneLinkEach(Accepted)

\* The claim as amended: every heading with a non-empty id that lies inside
\* no other heading with a non-empty id gets its link; one inside such a
\* heading is passed over with the rest of that heading's subtree.
C2_EveryOutermostHeading ==
  (Done /\ settings.test = "none") => AddsOneLinkEach(Outermost)

\* A finished run that linked two headings and passed over a nested one.
C2_Witness ==
  /\ Done
  /\ settings.test = "none"
  /\ settings.behavior = "before"
  /\ Cardinality(Outermost) >= 2
  /\ Outermost # Accepted
  /\ Cardinality(ThisRun) = Cardinality(Outermost)

(***************************************************************************)
(* C3. 'substitute' puts a single link in place of the heading's children. *)
(***************************************************************************)
\* What the content template gives for a heading, as plain data.
ContentFor(node) ==
  IF settings.content.kind = "function"
    THEN LET r == Build(heap, settings.content.fn, node)
         IN  SList(<<Serialize(r.h, r.a)>>)
    ELSE LET t == Serialize(heap, settings.content.ref)
         IN  IF t.kind = "array" THEN t ELSE SList(<<t>>)

\* The claim as stated: the link of 'substitute' holds the heading's original
\* children, as the link of 'wrap' does, and none of them leaves the tree.
C3_SubstituteKeepsChildren ==
  \A i \in ThisRun :
    settings.method = "substitute" =>
      /\ KidsOf(heap, made[i].node) = <<made[i].link>>
      /\ KidsOf(heap, made[i].link) = KidsOf(before, made[i].node)
      /\ \A c \in Range(KidsOf(before, made[i].node)) :
           c \in NodesOf(heap, tree)

\* The claim as amended: the link of 'substitute' holds a copy of the content
\* template and the heading's original children leave the tree; the link of
\* 'wrap' holds the original children.
C3_SubstituteReplacesChildren ==
  \A i \in ThisRun :
    LET m == made[i]
    IN  /\ settings.method = "substitute" =>
             /\ KidsOf(heap, m.node) = <<m.link>>
             /\ Serialize(heap, heap[m.link].children) = ContentFor(m.node)
             /\ \A c \in Range(KidsOf(before, m.node)) :
                  c \notin NodesOf(heap, tree)
        /\ settings.method = "wrap" =>
             /\ KidsOf(heap, m.node) = <<m.link>>
             /\ KidsOf(heap, m.link) = KidsOf(before, m.node)

\* 'substitute' has replaced the two children of a heading.
C3_Witness ==
  \E i \in ThisRun :
    /\ settings.method = "substitute"
    /\ Len(KidsOf(before, made[i].node)) = 2
    /\ KidsOf(heap, made[i].node) = <<made[i].link>>

(***************************************************************************)
(* C4. Without a properties template the link has, besides href,           *)
(* {ariaHidden: true, tabIndex: -1} for append and prepend, {tabIndex: -1} *)
(* for substitute and nothing for before, after and wrap; with a template  *)
(* it has the template's keys and no default.                              *)
(***************************************************************************)
Without(map, k) == [x \in DOMAIN map \ {k} |-> map[x]]

C4_DefaultProperties ==
  \A i \in DOMAIN made :
    LET others == Without(LinkProps(made[i]), "href")
    IN  IF options.properties.kind = "none"
          THEN CASE settings.behavior \in {"append", "prepend"} ->
                      others = ("ariaHidden" :> SBool("true"))
                               @@ ("tabIndex" :> SNum("-1"))
                 [] settings.behavior = "substitute" ->
                      others = ("tabIndex" :> SNum("-1"))
                 [] settings.behavior \in {"before", "after", "wrap"} ->
                      others = Without(SNoMap, "href")
                 [] OTHER -> TRUE
          ELSE others = Without(Template(made[i].node), "href")

(***************************************************************************)
(* C5. A behavior string that is none of the six configures without error  *)
(* and places the link inside the heading.                                 *)
(***************************************************************************)
Unrecognized ==
  options.behavior \notin
    {"", "after", "append", "before", "prepend", "wrap", "substitute"}

\* The claim as stated: the link is the first child, as for 'prepend'.
C5_FallsBackToPrepend ==
  Unrecognized =>
    \A i \in ThisRun :
      KidsOf(heap, made[i].node)
        = <<made[i].link>> \o KidsOf(before, made[i].node)

\* The claim as amended: the link is the last child, as for 'append', with
\* the defaults the code gives append and prepend when no properties are
\* supplied; configuring is always possible.
C5_FallsBackToAppend ==
  Unrecognized =>
    /\ pc = "init" => ENABLED Configure
    /\ pc # "init" => settings.method = "inject"
    /\ \A i \in ThisRun :
         /\ KidsOf(heap, made[i].node)
              = KidsOf(before, made[i].node) \o <<made[i].link>>
         /\ options.properties.kind = "none" =>
              Without(LinkProps(made[i]), "href")
                = ("ariaHidden" :> SStr("true")) @@ ("tabIndex" :> SNum("-1"))

\* An unrecognized behavior has linked a heading that has two children.
C5_Witness ==
  /\ Unrecognized
  /\ \E i \in ThisRun :
       /\ Len(KidsOf(before, made[i].node)) = 2
       /\ Len(KidsOf(heap, made[i].node)) = 3

(***************************************************************************)
(* C6. A heading the visitor does not accept (no id, an empty id, or       *)
(* rejected by the filter) gets no link and is after the run as it was     *)
(* before.                                                                 *)
(***************************************************************************)
Rejected == {a \in NodesOf(before, tree) : IsHeading(before, a)} \ Accepted
\* Every object of the subtree at a (nodes, child arrays, property maps) is
\* as it was: the subtree has the same shape and content.
Same(a) == \A x \in Reach(before, a) : heap[x] = before[x]

StaticOnly ==
  /\ settings.props.kind # "function"
  /\ settings.content.kind # "function"
  /\ settings.group.kind # "function"
Templates ==
  Reach(before, settings.props.ref) \cup Reach(before, settings.content.ref)
  \cup Reach(before, settings.group.ref)
Mine(m) == Reach(heap, m.link) \cup Reach(heap, m.grouping)

C7_NothingShared ==
  (StaticOnly /\ pc \in {"visiting", "done"}) =>
    /\ \A i, j \in ThisRun : i # j => Mine(made[i]) \cap Mine(made[j]) = {}
    /\ \A i \in ThisRun : Mine(made[i]) \cap Templates = {}
    /\ \A x \in Templates : heap[x] = before[x]

\* Two headings linked in one run from a static content template, or grouped
\* by a static group template.
C7_Witness ==
  /\ Done
  /\ StaticOnly
  /\ Cardinality(ThisRun) >= 2
  /\ options.content.kind = "static"

(***************************************************************************)
(* C8. A second run is not idempotent.                                     *)
(***************************************************************************)
PrevRun == {i \in DOMAIN made : made[i].run = run - 1}
PrevEntry(a) == {i \in PrevRun : made[i].node = a}
InTree(a) == a \in NodesOf(heap, tree)
Nested(i, j) ==
  /\ KidsOf(heap, made[i].node) = <<made[i].link>>
  /\ KidsOf(heap, made[i].link) = <<made[j].link>>

\* The claim as stated: after the second run every heading the first run
\* processed has two links, nested for wrap and substitute, and the tree
\* differs from the tree after the first run.
C8_SecondRunAlwaysGrows ==
  (Done /\ run >= 2 /\ PrevRun # {}) =>
    /\ Serialize(heap, tree) # Serialize(before, tree)
    /\ \A j \in PrevRun : \E i \in Entry(made[j].node) :
         /\ InTree(made[i].link) /\ InTree(made[j].link)
         /\ settings.method \in {"wrap", "substitute"} => Nested(i, j)

\* The claim as amended: the second run processes headings again. Except for
\* substitute the tree differs from the tree after the first run; for
\* prepend, append, before and after each processed heading adds one anchor
\* and a heading processed by both runs has two links; for wrap the second
\* link holds the first; for substitute the second link takes the place of
\* the first, which leaves the tree, and the tree is as after the first run.
C8_SecondRunGrowsOrReplaces ==
  (Done /\ run >= 2 /\ PrevRun # {}) =>
    /\ ThisRun # {}
    /\ settings.method # "substitute" =>
         Serialize(heap, tree) # Serialize(before, tree)
    /\ settings.method \in {"inject", "around"} =>
         /\ Cardinality(AnchorsOf(heap))
              = Cardinality(AnchorsOf(before)) + Cardinality(ThisRun)
         /\ \A i \in ThisRun : \A j \in PrevEntry(made[i].node) :
              /\ InTree(made[i].link) /\ InTree(made[j].link)
              /\ made[i].link # made[j].link
    /\ settings.method = "wrap" =>
         \A j \in PrevRun : \E i \in Entry(made[j].node) : Nested(i, j)
    /\ settings.method = "substitute" =>
         /\ \A j \in PrevRun : \E i \in Entry(made[j].node) :
              /\ KidsOf(heap, made[i].node) = <<made[i].link>>
              /\ ~InTree(made[j].link)
         /\ Serialize(heap, tree) = Serialize(before, tree)

\* A second run has processed a heading the first run processed.
C8_Witness ==
  /\ Done
  /\ run = 2
  /\ \E i \in ThisRun : PrevEntry(made[i].node) # {}

(***************************************************************************)
(* C9. before/after with a group template: a single grouping element takes *)
(* the heading's slot and holds link and heading; any other group value    *)
(* leaves them as adjacent siblings; the other children of the parent keep *)
(* their order; other behaviors ignore the group template.                 *)
(***************************************************************************)
\* The value the group template gives for a heading.
GroupValue(node) ==
  IF settings.group.kind = "function"
    THEN LET r == Build(heap, settings.group.fn, node) IN r.h[r.a]
    ELSE before[settings.group.ref]
SingleElement(node) ==
  /\ settings.group.kind # "none"
  /\ GroupValue(node).kind = "node"
  /\ GroupValue(node).type = "element"

\* The parent's children with this run's insertions undone: the links taken
\* out and each grouping element replaced by the heading it holds.
IsLink(a) == \E k \in ThisRun : made[k].link = a
IsGrouping(a) == \E k \in ThisRun : made[k].grouping = a
HeadingIn(a) == made[CHOOSE k \in ThisRun : made[k].grouping = a].node
WithoutLinks(sibs) == SelectSeq(sibs, LAMBDA a : ~IsLink(a))
Undone(sibs) ==
  [x \in DOMAIN WithoutLinks(sibs) |->
     IF IsGrouping(WithoutLinks(sibs)[x]) THEN HeadingIn(WithoutLinks(sibs)[x])
     ELSE WithoutLinks(sibs)[x]]

\* The link and the heading are adjacent children of the parent, in order.
Adjacent(m, sibs, at) ==
  IF settings.behavior = "before"
    THEN at > 1 /\ sibs[at - 1] = m.link
    ELSE at >= 1 /\ at < Len(sibs) /\ sibs[at + 1] = m.link

C9_Grouping ==
  /\ \A i \in ThisRun :
       LET m == made[i]
           sibs == KidsOf(heap, m.parent)
       IN  IF settings.method = "around"
             THEN /\ IF SingleElement(m.node)
                       THEN /\ m.grouping # 0
                            /\ KidsOf(heap, m.grouping)
                                 = IF settings.behavior = "before"
                                     THEN <<m.link, m.node>>
                                     ELSE <<m.node, m.link>>
                            /\ heap[m.grouping].tagName
                                 = GroupValue(m.node).tagName
                            /\ m.grouping \in Range(sibs)
                            /\ m.node \notin Range(sibs)
                            /\ m.link \notin Range(sibs)
                       ELSE /\ m.grouping = 0
                            /\ Adjacent(m, sibs, IndexOf(sibs, m.node) + 1)
                  /\ Undone(sibs) = KidsOf(before, m.parent)
             ELSE /\ m.grouping = 0
                  /\ KidsOf(heap, m.parent) = KidsOf(before, m.parent)
  /\ (settings.method # "around" /\ ThisRun # {}) =>
       LET old == NodesOf(before, tree)
       IN  NodesOf(heap, tree) \ old
             = UNION {NodesOf(heap, made[k].link) : k \in ThisRun} \ old

\* A heading between two siblings has been grouped with its link.
C9_Witness ==
  \E i \in ThisRun :
    /\ settings.behavior = "before"
    /\ made[i].grouping # 0
    /\ Len(KidsOf(before, made[i].parent)) = 3
    /\ Len(KidsOf(heap, made[i].parent)) = 3

(***************************************************************************)
(* C10. The visitor is called on nodes of the tree as it was when the run  *)
(* began, in document order, on none of them twice and on no node made     *)
(* during the run; of the original elements only those inside a processed  *)
(* heading are passed over.  Every step of a run calls the visitor once,   *)
(* a step can be taken as long as the run has not finished, and the calls  *)
(* are no more than the nodes the tree began with: the run ends.           *)
(***************************************************************************)
Document == PreOrder(before, tree)
Position(a) == IndexOf(Document, a)
Passed == UNION {Inside(before, made[i].node) : i \in ThisRun}

\* The guards of the visitor's steps taken together: there is a node to call
\* the visitor on and a strategy to apply to it.
Pending ==
  /\ stack # <<>>
  /\ Top.offset < Len(KidsOf(heap, Top.node))
  /\ heap[Current].type = "element"
  /\ settings.method \in {"inject", "around", "wrap", "substitute"}

C10_Traversal ==
  pc \in {"visiting", "done"} =>
    LET doc == Document
        at == [i \in DOMAIN visited |-> IndexOf(doc, visited[i])]
    IN  /\ \A i \in DOMAIN at : at[i] >= 0
        /\ \A i \in DOMAIN at : i > 1 => at[i - 1] < at[i]
        /\ \A i \in ThisRun : \A j \in ThisRun :
             i # j => made[i].node # made[j].node
        /\ \A i \in ThisRun : made[i].node \in Range(visited)
        /\ Len(visited) <= Len(doc)
        /\ pc = "visiting" => Pending
        /\ Done =>
             \A a \in Range(doc) \ Passed :
               before[a].type = "element" => a \in Range(visited)

\* A finished run in which headings were put into copies of a group template
\* that is itself a heading with an id, and a sibling after one was visited.
C10_Witness ==
  /\ Done
  /\ settings.method = "around"
  /\ \E i \in ThisRun :
       /\ made[i].grouping # 0
       /\ HasId(heap, made[i].grouping)
       /\ \E v \in Range(visited) :
            /\ Position(v) > Position(made[i].node)
            /\ v \notin Inside(before, made[i].node)

====
